---- MODULE Spec2Model ----
(***************************************************************************)
(* Model of the password generator: the library generators of              *)
(* password_generators.py ("lib"), the generator classes, strength scorer  *)
(* and session logic of dasshboard.py ("dash").                            *)
(*                                                                         *)
(* A character is a one-character string, a Python str is a sequence of    *)
(* characters.  A draw of the random source is an input: a "tape" names    *)
(* the raw values the source returns, draw i of tape t being Raw(t, i):     *)
(* a + b*i, or the values of a given sequence, read cyclically.            *)
(***************************************************************************)
EXTENDS Integers, Sequences, FiniteSets, TLC

VARIABLES
    rargs,      \* random password: the constructor arguments (and the class used)
    rgen,       \* random password: the generator object's fields, or NoObject
    chars,      \* random password: self.characters (lib) / the local chars of generate (dash)
    rres,       \* random password: outcome of the last generate()
    margs,      \* memorable password: constructor arguments (and the class used)
    mgen,       \* memorable password: the generator object's fields, or NoObject
    mres,       \* memorable password: outcome of the last generate()
    pgen,       \* pin code: the generator object (class, length), or NoObject
    attempts,   \* pin code: iterations of the retry loop started in the current call
    pin,        \* pin code: the local variable pin (the last candidate drawn)
    pres,       \* pin code: outcome of the current generate() call
    g1, g2,     \* seeded generators: two MemorablePasswordGenerator objects
    out1, out2, \* seeded generators: what each returned, call by call
    pw,         \* strength: the string handed to compute_strength
    strength,   \* strength: what compute_strength returned, or NoResult
    widgets,    \* dashboard: the values of the widgets of the current script run
    session,    \* dashboard: st.session_state
    lastrun     \* dashboard: what the last script run did

vars == <<rargs, rgen, chars, rres, margs, mgen, mres, pgen, attempts, pin, pres,
          g1, g2, out1, out2, pw, strength, widgets, session, lastrun>>

randomVars == <<rargs, rgen, chars, rres>>
memVars    == <<margs, mgen, mres>>
pinVars    == <<pgen, attempts, pin, pres>>
seedVars   == <<g1, g2, out1, out2>>
scoreVars  == <<pw, strength>>
dashVars   == <<widgets, session, lastrun>>

(***************************************************************************)
(* Bounds of the model.                                                    *)
(***************************************************************************)
MaxLen == 11        \* lengths of random passwords: 1..MaxLen
RngWidth == 3       \* tapes: Raw(t, i) = t.a + t.b * i with a, b < RngWidth

(***************************************************************************)
(* Python values.                                                          *)
(***************************************************************************)
None == "None"
NoObject == [class |-> "None"]
NoResult == [kind |-> "none", value |-> <<>>]
Returned(s) == [kind |-> "ok", value |-> s]
Raised(e) == [kind |-> e, value |-> <<>>]

\* string.ascii_uppercase, string.ascii_lowercase, string.digits, string.punctuation
ascii_uppercase ==
    <<"A","B","C","D","E","F","G","H","I","J","K","L","M",
      "N","O","P","Q","R","S","T","U","V","W","X","Y","Z">>
ascii_lowercase ==
    <<"a","b","c","d","e","f","g","h","i","j","k","l","m",
      "n","o","p","q","r","s","t","u","v","w","x","y","z">>
\* the grave accent (chr 96), which a TLA+ string cannot hold
grave == "grave"
digits == <<"0","1","2","3","4","5","6","7","8","9">>
punctuation ==
    <<"!","\"","#","$","%","&","'","(",")","*","+",",","-",".","/",":",
      ";","<","=",">","?","@","[","\\","]","^","_",grave,"{","|","}","~">>

Range(s) == {s[i] : i \in 1..Len(s)}
Min(a, b) == IF a < b THEN a ELSE b
Max(a, b) == IF a < b THEN b ELSE a

\* 1-based position of c in s (0 when absent)
IndexOf(c, s) ==
    IF c \in Range(s) THEN CHOOSE i \in 1..Len(s) : s[i] = c /\ \A j \in 1..(i-1) : s[j] # c
    ELSE 0

(***************************************************************************)
(* The random source.  A tape is the sequence of raw values one source     *)
(* returns; the i-th draw below n is Raw(t, i) % n.                        *)
(***************************************************************************)
Tapes == [a : 0..(RngWidth - 1), b : 0..(RngWidth - 1), seq : {<<>>}]
Raw(t, i) == IF t.seq = <<>> THEN t.a + t.b * i ELSE t.seq[(i % Len(t.seq)) + 1]
randbelow(n, t, i) == Raw(t, i) % n

\* random.choice(seq) as draw i of tape t (seq is not empty)
choice(seq, t, i) == seq[randbelow(Len(seq), t, i) + 1]

\* random.choices(seq, k=k) / ''.join(random.choice(seq) for _ in range(k)), draws from..from+k-1
choices(seq, k, t, from) == [i \in 1..k |-> choice(seq, t, from + i - 1)]

\* random.sample(population, k), 0 <= k <= len(population): draw i picks pool[j],
\* j below the number of elements left, and the last element left takes its place
RECURSIVE sample_loop(_, _, _, _, _)
sample_loop(pool, k, t, i, result) ==
    IF i = k THEN result
    ELSE LET n == Len(pool)
             j == randbelow(n - i, t, i) + 1
         IN  sample_loop([pool EXCEPT ![j] = pool[n - i]], k, t, i + 1, Append(result, pool[j]))
sample(population, k, t) == sample_loop(population, k, t, 0, <<>>)

(***************************************************************************)
(* RandomPasswordGenerator                                                 *)
(***************************************************************************)
RandomArgs ==
    [length : 1..MaxLen, include_uppercase : BOOLEAN, include_lowercase : BOOLEAN,
     include_numbers : BOOLEAN, include_symbols : BOOLEAN, exclude_similar : BOOLEAN,
     no_repeated_characters : BOOLEAN]

\* the character classes in the order both classes concatenate them
ClassChars(a) ==
    (IF a.include_uppercase THEN ascii_uppercase ELSE <<>>)
    \o (IF a.include_lowercase THEN ascii_lowercase ELSE <<>>)
    \o (IF a.include_numbers THEN digits ELSE <<>>)
    \o (IF a.include_symbols THEN punctuation ELSE <<>>)

\* mutant of similar_chars: the capital I is forgotten
similar_chars_NoI == <<"O","0","l","1">>
\* lib: similar_chars = "O0l1I"
similar_chars == <<"O","0","l","1","I">>
\* lib: "".join(char for char in self.characters if char not in similar_chars)
LibExclude(cs) == SelectSeq(cs, LAMBDA c : c \notin Range(similar_chars))

\* lib: __init__ computes self.characters
LibCharacters(a) ==
    IF a.exclude_similar THEN LibExclude(ClassChars(a)) ELSE ClassChars(a)

LibRandomObject(a) ==
    [class |-> "lib", length |-> a.length,
     no_repeated_characters |-> a.no_repeated_characters]

\* mutant of LibRandomGenerate: the pool-size test is off by one (>= for >)
LibRandomGenerate_OffByOne(self, characters, t) ==
    IF self.no_repeated_characters
    THEN IF self.length >= Len(characters)
         THEN Raised("InsufficientPoolError")
         ELSE Returned(sample(characters, self.length, t))
    ELSE IF self.length > 0 /\ Len(characters) = 0
         THEN Raised("IndexError")
         ELSE Returned(choices(characters, self.length, t, 0))

\* lib: generate()
LibRandomGenerate(self, characters, t) ==
    IF self.no_repeated_characters
    THEN IF self.length > Len(characters)
         THEN Raised("InsufficientPoolError")
         ELSE Returned(sample(characters, self.length, t))
    ELSE IF self.length > 0 /\ Len(characters) = 0
         THEN Raised("IndexError")         \* random.choice of an empty sequence
         ELSE Returned(choices(characters, self.length, t, 0))

\* dash: chars = chars.replace(char, "")
replace(cs, ch) == SelectSeq(cs, LAMBDA c : c # ch)
\* dash: for char in "Il1O0": chars = chars.replace(char, "")
dash_similar == <<"I","l","1","O","0">>
RECURSIVE DashExclude(_, _)
DashExclude(cs, i) ==
    IF i > Len(dash_similar) THEN cs ELSE DashExclude(replace(cs, dash_similar[i]), i + 1)

\* dash: the local chars of generate()
DashChars(self) ==
    LET a == [include_uppercase |-> self.include_upper, include_lowercase |-> self.include_lower,
              include_numbers |-> self.include_digits, include_symbols |-> self.include_symbols]
    IN  IF self.exclude_similar THEN DashExclude(ClassChars(a), 1) ELSE ClassChars(a)

DashRandomObject(a) ==
    [class |-> "dash", length |-> a.length, include_upper |-> a.include_uppercase,
     include_lower |-> a.include_lowercase, include_digits |-> a.include_numbers,
     include_symbols |-> a.include_symbols, exclude_similar |-> a.exclude_similar,
     no_repeated |-> a.no_repeated_characters]

\* dash: generate()
DashRandomGenerate(self, t) ==
    LET cs == DashChars(self)
    IN  IF Len(cs) = 0 THEN Raised("ConfigError")
        ELSE IF self.no_repeated /\ Len(cs) < self.length THEN Raised("InsufficientPoolError")
        ELSE IF self.no_repeated THEN Returned(sample(cs, self.length, t))
        ELSE Returned(choices(cs, self.length, t, 0))


(***************************************************************************)
(* The states in which a component has not been used.                      *)
(***************************************************************************)
RandomIdle == rargs = None /\ rgen = NoObject /\ chars = <<>> /\ rres = NoResult
MemIdle    == margs = None /\ mgen = NoObject /\ mres = NoResult
PinIdle    == pgen = NoObject /\ attempts = 0 /\ pin = <<>> /\ pres = NoResult
SeedIdle   == g1 = NoObject /\ g2 = NoObject /\ out1 = <<>> /\ out2 = <<>>
ScoreIdle  == pw = <<>> /\ strength = NoResult
DashIdle   == widgets = None /\ session = None /\ lastrun = None

(***************************************************************************)
(* Random passwords: constructing a generator and calling generate().      *)
(***************************************************************************)
LibRandomConstruct ==
    /\ rgen = NoObject
    /\ rgen' = LibRandomObject(rargs)
    /\ chars' = LibCharacters(rargs)
    /\ UNCHANGED <<rargs, rres, memVars, pinVars, seedVars, scoreVars, dashVars>>

LibRandomCall ==
    /\ rgen.class = "lib"
    /\ \E t \in Tapes : rres' = LibRandomGenerate(rgen, chars, t)
    /\ UNCHANGED <<rargs, rgen, chars, memVars, pinVars, seedVars, scoreVars, dashVars>>

DashRandomConstruct ==
    /\ rgen = NoObject
    /\ rgen' = DashRandomObject(rargs)
    /\ UNCHANGED <<rargs, chars, rres, memVars, pinVars, seedVars, scoreVars, dashVars>>

DashRandomCall ==
    /\ rgen.class = "dash"
    /\ chars' = DashChars(rgen)
    /\ \E t \in Tapes : rres' = DashRandomGenerate(rgen, t)
    /\ UNCHANGED <<rargs, rgen, memVars, pinVars, seedVars, scoreVars, dashVars>>

\* the constructor arguments are the inputs
InitRandom ==
    /\ rargs \in RandomArgs /\ rgen = NoObject /\ chars = <<>> /\ rres = NoResult
    /\ MemIdle /\ PinIdle /\ SeedIdle /\ ScoreIdle /\ DashIdle
NextRandom == LibRandomConstruct \/ LibRandomCall \/ DashRandomConstruct \/ DashRandomCall
SpecRandom == InitRandom /\ [][NextRandom]_vars

\* the pool a generate() call draws from, once it is known
PoolKnown == rgen.class = "lib" \/ (rgen.class = "dash" /\ rres.kind # "none")
Distinct(s) == \A i, j \in 1..Len(s) : i # j => s[i] # s[j]

\* C3 as claimed: with noRepeat, generate() returns `length` pairwise distinct
\* characters of the pool when length <= pool size, and fails with
\* InsufficientPoolError when length > pool size.
C3_Claimed ==
    (PoolKnown /\ rargs.no_repeated_characters /\ rres.kind # "none") =>
        IF rargs.length <= Len(chars)
        THEN /\ rres.kind = "ok"
             /\ Len(rres.value) = rargs.length
             /\ Range(rres.value) \subseteq Range(chars)
             /\ Distinct(rres.value)
        ELSE rres.kind = "InsufficientPoolError"

\* C3 as amended: as claimed, except that the dashboard class reports an empty
\* pool as ConfigError (also with noRepeat) instead of InsufficientPoolError.
C3_NoRepeat ==
    (PoolKnown /\ rargs.no_repeated_characters /\ rres.kind # "none") =>
        IF rargs.length <= Len(chars)
        THEN /\ rres.kind = "ok"
             /\ Len(rres.value) = rargs.length
             /\ Range(rres.value) \subseteq Range(chars)
             /\ Distinct(rres.value)
        ELSE /\ rres.value = <<>>
             /\ rres.kind = IF rgen.class = "dash" /\ Len(chars) = 0
                            THEN "ConfigError" ELSE "InsufficientPoolError"

C3_Witness ==
    /\ rargs.no_repeated_characters /\ rargs.exclude_similar
    /\ rres.kind = "ok" /\ Len(chars) = 8 /\ Len(rres.value) = 8

\* C4 as claimed: with an empty pool generate() fails with ConfigError, for every
\* length and both values of noRepeat; no string, no other error kind.
C4_Claimed ==
    (PoolKnown /\ rres.kind # "none" /\ Len(chars) = 0) => rres.kind = "ConfigError"

Similar == {"I", "l", "1", "O", "0"}
WithoutSimilar(s) == SelectSeq(s, LAMBDA c : c \notin Similar)
\* the pool the same class builds from the same flags with excludeSimilar = false
PlainPool ==
    IF rgen.class = "lib" THEN LibCharacters([rargs EXCEPT !.exclude_similar = FALSE])
    ELSE DashChars([rgen EXCEPT !.exclude_similar = FALSE])

\* C9: the pool built with excludeSimilar is the pool built without it with exactly
\* I, l, 1, O, 0 removed, order kept; digits+uppercase has 36 characters without
\* and 32 with exclusion; no password generated with excludeSimilar holds one of the five.
C9_ExcludeSimilar ==
    (PoolKnown /\ rargs.exclude_similar) =>
        /\ chars = WithoutSimilar(PlainPool)
        /\ Len(PlainPool) - Len(chars) = Cardinality(Similar \cap Range(PlainPool))
        /\ (rargs.include_uppercase /\ rargs.include_numbers
            /\ ~rargs.include_lowercase /\ ~rargs.include_symbols)
              => (Len(PlainPool) = 36 /\ Len(chars) = 32)
        /\ rres.kind = "ok" => Range(rres.value) \cap Similar = {}

C9_Witness ==
    /\ rargs.exclude_similar
    /\ rargs.include_uppercase /\ rargs.include_numbers
    /\ ~rargs.include_lowercase /\ ~rargs.include_symbols
    /\ rres.kind = "ok" /\ Len(chars) = 32


(***************************************************************************)
(* PinCodeGenerator                                                        *)
(***************************************************************************)
MaxPinLen == 4      \* pin lengths: 1..MaxPinLen
\* the candidates drawn: from a start digit of PinStarts, going up or down by a step
\* of PinSteps (mod 10), and the keypad column 2580
PinStarts == {0, 1, 2, 3, 6, 7, 9}
PinSteps == {0, 1, 2, 9}
PinTapes == [a : PinStarts, b : PinSteps, seq : {<<>>}] \cup {[a |-> 0, b |-> 0, seq |-> <<2, 5, 8, 0>>]}

\* lib: blocked = {"1234", "0000", "1111", "2580"}
blocked == {<<"1","2","3","4">>, <<"0","0","0","0">>, <<"1","1","1","1">>, <<"2","5","8","0">>}

\* mutant of is_repeating: never true
is_repeating_Never(p) == Cardinality(Range(p)) = 0
\* lib: is_repeating(pin)
is_repeating(p) == Cardinality(Range(p)) = 1

\* int(c) of a digit character
int(c) == IndexOf(c, digits) - 1
\* lib: is_sequential(pin)
is_sequential(p) ==
    IF Len(p) < 2 THEN FALSE
    ELSE LET diffs == [i \in 1..(Len(p) - 1) |-> int(p[i + 1]) - int(p[i])]
         IN  (\A i \in 1..Len(diffs) : diffs[i] = 1) \/ (\A i \in 1..Len(diffs) : diffs[i] = -1)

\* lib: max_attempts = 1000
max_attempts == 1000

\* ''.join(random.choice(string.digits) for _ in range(self.length))
\* / "".join(random.choices(string.digits, k=self.length))
PinCandidate(length, t) == choices(digits, length, t, 0)

LibPinConstruct ==
    /\ pres.kind # "running"
    /\ \E n \in 1..MaxPinLen : pgen' = [class |-> "lib", length |-> n]
    /\ attempts' = 0 /\ pin' = <<>> /\ pres' = NoResult
    /\ UNCHANGED <<randomVars, memVars, seedVars, scoreVars, dashVars>>

\* lib: generate() is entered
LibPinCall ==
    /\ pgen.class = "lib" /\ pres.kind # "running"
    /\ attempts' = 0 /\ pin' = <<>> /\ pres' = [kind |-> "running", value |-> <<>>]
    /\ UNCHANGED <<pgen, randomVars, memVars, seedVars, scoreVars, dashVars>>

\* lib: one iteration of the retry loop; the raise follows the last iteration
LibPinAttempt ==
    /\ pgen.class = "lib" /\ pres.kind = "running" /\ attempts < max_attempts
    /\ \E t \in PinTapes :
         LET candidate == PinCandidate(pgen.length, t)
         IN  /\ pin' = candidate
             /\ attempts' = attempts + 1
             /\ pres' = IF candidate \in blocked \/ is_repeating(candidate) \/ is_sequential(candidate)
                        THEN IF attempts + 1 = max_attempts
                             THEN Raised("PinExhaustionError")
                             ELSE pres
                        ELSE Returned(candidate)
    /\ UNCHANGED <<pgen, randomVars, memVars, seedVars, scoreVars, dashVars>>

DashPinConstruct ==
    /\ pres.kind # "running"
    /\ \E n \in 1..MaxPinLen : pgen' = [class |-> "dash", length |-> n]
    /\ attempts' = 0 /\ pin' = <<>> /\ pres' = NoResult
    /\ UNCHANGED <<randomVars, memVars, seedVars, scoreVars, dashVars>>

\* dash: generate()
DashPinCall ==
    /\ pgen.class = "dash"
    /\ \E t \in PinTapes : pres' = Returned(PinCandidate(pgen.length, t))
    /\ UNCHANGED <<pgen, attempts, pin, randomVars, memVars, seedVars, scoreVars, dashVars>>

InitPin == RandomIdle /\ MemIdle /\ PinIdle /\ SeedIdle /\ ScoreIdle /\ DashIdle
NextPin == LibPinConstruct \/ LibPinCall \/ LibPinAttempt \/ DashPinConstruct \/ DashPinCall
SpecPin == InitPin /\ [][NextPin]_vars

Digit(c) == c \in {"0","1","2","3","4","5","6","7","8","9"}
Val(c) == CHOOSE v \in 0..9 : digits[v + 1] = c
Repeated(p) == \A i \in 1..Len(p) : p[i] = p[1]
Ascending(p) == \A i \in 1..(Len(p) - 1) : Val(p[i + 1]) = Val(p[i]) + 1
Descending(p) == \A i \in 1..(Len(p) - 1) : Val(p[i + 1]) = Val(p[i]) - 1
Blocked(p) == p \in {<<"1","2","3","4">>, <<"0","0","0","0">>, <<"1","1","1","1">>, <<"2","5","8","0">>}
\* the rejection rules
Rejected(p) == Blocked(p) \/ Repeated(p) \/ (Len(p) >= 2 /\ (Ascending(p) \/ Descending(p)))

\* C1 as claimed: for every PinCodeGenerator of length >= 2, what generate() returns
\* is `length` decimal digits, not blocked, not one digit repeated, not ascending
\* or descending by 1 throughout.
C1_Claimed ==
    (pres.kind = "ok" /\ pgen.length >= 2) =>
        /\ Len(pres.value) = pgen.length
        /\ \A i \in 1..Len(pres.value) : Digit(pres.value[i])
        /\ ~Rejected(pres.value)

\* C2 (the library class): generate() draws at most 1000 candidates; it returns the
\* first candidate that no rule rejects, unchanged; it fails with PinExhaustionError
\* exactly when all 1000 candidates were rejected, as they always are for length 1.
C2_BoundedRetry ==
    pgen.class = "lib" =>
        /\ attempts <= 1000
        /\ pres.kind \in {"none", "running", "ok", "PinExhaustionError"}
        /\ pres.kind = "running" => (attempts < 1000 /\ (attempts > 0 => Rejected(pin)))
        /\ pres.kind = "ok" =>
             (attempts >= 1 /\ pres.value = pin /\ ~Rejected(pin) /\ Len(pin) = pgen.length)
        /\ pres.kind = "PinExhaustionError" => (attempts = 1000 /\ Rejected(pin))
        /\ (attempts = 1000 /\ Rejected(pin)) => pres.kind = "PinExhaustionError"
        /\ (pgen.length = 1 /\ attempts > 0) => pres.kind # "ok"

C2_Witness ==
    /\ pgen.class = "lib" /\ pgen.length = 4
    /\ pres.kind = "PinExhaustionError" /\ attempts = 1000


(***************************************************************************)
(* MemorablePasswordGenerator                                              *)
(***************************************************************************)
MaxWords == 4       \* number of words: 1..MaxWords
MaxSuffix == 2      \* suffix length: 0..MaxSuffix
MaxDraws == 6       \* a seeded source is followed for this many draws

apple == <<"a","p","p","l","e">>
banana == <<"b","a","n","a","n","a">>
kiwi == <<"k","i","w","i">>
cherry == <<"c","h","e","r","r","y">>
Apple == <<"A","p","p","l","e">>
fig == <<"f","i","g">>
elephant == <<"e","l","e","p","h","a","n","t">>
\* the vocabularies handed to the generators
Vocabularies == {<<apple, banana, kiwi>>, <<Apple, fig, elephant>>, <<fig, elephant>>}
Separators == {<<"-">>, <<>>}

\* a seed fixes the sequence of values random.Random(seed) returns
Seeds == 0..(RngWidth * RngWidth - 1)
\* rng_seed = None (no seed given)
NoSeed == 0 - 1
SeedTape(seed) == [a |-> seed % RngWidth, b |-> seed \div RngWidth, seq |-> <<>>]

MemArgs ==
    [no_of_words : 1..MaxWords, separator : Separators, capitalization : BOOLEAN,
     vocabulary : Vocabularies, suffix_length : 0..MaxSuffix, rng_seed : Seeds \cup {NoSeed}]

\* str.upper / str.lower of one character, str.lower, str.capitalize
upper(c) == IF c \in Range(ascii_lowercase) THEN ascii_uppercase[IndexOf(c, ascii_lowercase)] ELSE c
lower(c) == IF c \in Range(ascii_uppercase) THEN ascii_lowercase[IndexOf(c, ascii_uppercase)] ELSE c
str_lower(w) == [i \in 1..Len(w) |-> lower(w[i])]
capitalize(w) == [i \in 1..Len(w) |-> IF i = 1 THEN upper(w[i]) ELSE lower(w[i])]

\* separator.join(words)
RECURSIVE join(_, _)
join(sep, ws) ==
    IF Len(ws) = 0 THEN <<>>
    ELSE IF Len(ws) = 1 THEN ws[1]
    ELSE ws[1] \o sep \o join(sep, Tail(ws))

MemReturned(s, ws) == [kind |-> "ok", value |-> s, words |-> ws]

\* mutant of NewRng: the seed given is ignored
NewRng_Unseeded(rng_seed, entropy) == [seed |-> entropy, pos |-> 0]
\* lib: rng_seed = SystemRandom().randint(...) if None; self._rng = random.Random(rng_seed)
NewRng(rng_seed, entropy) ==
    [seed |-> IF rng_seed = NoSeed THEN entropy ELSE rng_seed, pos |-> 0]

\* lib: __init__ (vocabulary given)
LibMemObject(a, entropy) ==
    [class |-> "lib", no_of_words |-> a.no_of_words, separator |-> a.separator,
     capitalization |-> a.capitalization, suffix_length |-> Max(0, a.suffix_length),
     vocabulary |-> a.vocabulary, rng |-> NewRng(a.rng_seed, entropy)]

\* lib: generate(): what it returns and the state self._rng is left in
LibMemGenerate(self) ==
    LET t == SeedTape(self.rng.seed)
        p == self.rng.pos
        k == self.no_of_words
        drawn == [i \in 1..k |-> choice(self.vocabulary, t, p + i - 1)]
        password_words == IF self.capitalization
                          THEN [i \in 1..k |-> capitalize(drawn[i])] ELSE drawn
        password == join(self.separator, password_words)
        suffix == IF self.suffix_length > 0
                  THEN choices(digits, self.suffix_length, t, p + k) ELSE <<>>
    IN  IF k > 0 /\ Len(self.vocabulary) = 0
        THEN [result |-> Raised("IndexError"), rng |-> self.rng]
        ELSE [result |-> MemReturned(password \o suffix, password_words),
              rng |-> [self.rng EXCEPT !.pos = p + k + self.suffix_length]]

\* dash: __init__
DashMemObject(a) ==
    [class |-> "dash", no_of_words |-> a.no_of_words, separator |-> a.separator,
     capitalization |-> a.capitalization,
     vocabulary |-> IF Len(a.vocabulary) > 0 THEN a.vocabulary ELSE <<apple, banana, cherry>>,
     suffix_length |-> a.suffix_length]

\* dash: generate()
DashMemGenerate(self, t) ==
    LET kept == SelectSeq(self.vocabulary, LAMBDA w : 3 < Len(w) /\ Len(w) < 8)
        filtered_vocab == IF Len(kept) = 0 THEN self.vocabulary ELSE kept
        k == self.no_of_words
        drawn == sample(filtered_vocab, k, t)
        selected_words == IF self.capitalization
                          THEN [i \in 1..k |-> capitalize(drawn[i])]
                          ELSE [i \in 1..k |-> str_lower(drawn[i])]
        password == join(self.separator, selected_words)
        suffix == IF self.suffix_length > 0
                  THEN choices(digits, self.suffix_length, t, k) ELSE <<>>
    IN  IF k > Len(filtered_vocab)
        THEN Raised("ValueError")       \* random.sample: sample larger than population
        ELSE MemReturned(password \o suffix, selected_words)

LibMemConstruct ==
    /\ mgen = NoObject
    /\ \E entropy \in Seeds : mgen' = LibMemObject(margs, entropy)
    /\ UNCHANGED <<margs, mres, randomVars, pinVars, seedVars, scoreVars, dashVars>>

LibMemCall ==
    /\ mgen.class = "lib" /\ mgen.rng.pos < MaxDraws
    /\ LET r == LibMemGenerate(mgen)
       IN  mres' = r.result /\ mgen' = [mgen EXCEPT !.rng = r.rng]
    /\ UNCHANGED <<margs, randomVars, pinVars, seedVars, scoreVars, dashVars>>

\* the dashboard class takes no seed
DashMemConstruct ==
    /\ mgen = NoObject /\ margs.rng_seed = NoSeed
    /\ mgen' = DashMemObject(margs)
    /\ UNCHANGED <<margs, mres, randomVars, pinVars, seedVars, scoreVars, dashVars>>

DashMemCall ==
    /\ mgen.class = "dash"
    /\ \E t \in Tapes : mres' = DashMemGenerate(mgen, t)
    /\ UNCHANGED <<margs, mgen, randomVars, pinVars, seedVars, scoreVars, dashVars>>

InitMem ==
    /\ margs \in MemArgs /\ mgen = NoObject /\ mres = NoResult
    /\ RandomIdle /\ PinIdle /\ SeedIdle /\ ScoreIdle /\ DashIdle
NextMem == LibMemConstruct \/ LibMemCall \/ DashMemConstruct \/ DashMemCall
SpecMem == InitMem /\ [][NextMem]_vars

\* the vocabulary words of 4 to 7 characters, or all of them when there is none
Allowed(vocabulary) ==
    LET fit == {w \in Range(vocabulary) : Len(w) >= 4 /\ Len(w) <= 7}
    IN  IF fit = {} THEN Range(vocabulary) ELSE fit
Fold(s) == [i \in 1..Len(s) |-> lower(s[i])]
\* s is k words of `words` (in some casing) joined by sep, then n decimal digits
IsPhrase(s, k, words, sep, n) ==
    /\ Len(s) >= n
    /\ \A i \in (Len(s) - n + 1)..Len(s) : s[i] \in Range(digits)
    /\ \E ws \in [1..k -> words] :
         Fold(SubSeq(s, 1, Len(s) - n)) = Fold(join(sep, ws))
TestConfig ==
    /\ margs.no_of_words = 4 /\ margs.separator = <<"-">> /\ margs.capitalization
    /\ margs.vocabulary = <<apple, banana, kiwi>> /\ margs.suffix_length = 2

\* C6 as claimed: what generate() returns is wordCount words joined by the separator
\* and followed by suffixLength digits, each word a vocabulary word of 4..7 characters
\* (any vocabulary word when there is none); with 4 words, "-", capitalize,
\* [apple, banana, kiwi] and suffix 2, generate() succeeds.
C6_Claimed ==
    /\ mres.kind = "ok" =>
          IsPhrase(mres.value, margs.no_of_words, Allowed(margs.vocabulary),
                   margs.separator, margs.suffix_length)
    /\ (TestConfig /\ mres.kind # "none") => mres.kind = "ok"

IsUpper(c) == c \in Range(ascii_uppercase)
IsLower(c) == c \in Range(ascii_lowercase)
\* C7 as claimed: in what generate() returns every word has its first letter in upper
\* case and the others in lower case when capitalize is set, and is all lower case
\* when it is not, whatever the casing in the vocabulary.
C7_Claimed ==
    mres.kind = "ok" =>
        /\ mres.value = join(margs.separator, mres.words)
                        \o SubSeq(mres.value, Len(mres.value) - margs.suffix_length + 1, Len(mres.value))
        /\ \A i \in 1..Len(mres.words) :
             LET w == mres.words[i]
             IN  IF margs.capitalization
                 THEN ~IsLower(w[1]) /\ \A j \in 2..Len(w) : ~IsUpper(w[j])
                 ELSE \A j \in 1..Len(w) : ~IsUpper(w[j])


(***************************************************************************)
(* Two library MemorablePasswordGenerator objects, each constructed once   *)
(* and called repeatedly.                                                  *)
(***************************************************************************)
MaxCalls == 2       \* generate() calls made on one object
SeedArgs ==
    [no_of_words : {2}, separator : {<<"-">>}, capitalization : BOOLEAN,
     vocabulary : {<<apple, banana, kiwi>>}, suffix_length : {0, 1},
     rng_seed : Seeds \cup {NoSeed}]

SeededConstruct1 ==
    /\ g1 = NoObject
    /\ \E a \in SeedArgs, entropy \in Seeds :
         g1' = [class |-> "lib", args |-> a, self |-> LibMemObject(a, entropy)]
    /\ UNCHANGED <<g2, out1, out2, randomVars, memVars, pinVars, scoreVars, dashVars>>

SeededConstruct2 ==
    /\ g2 = NoObject
    /\ \E a \in SeedArgs, entropy \in Seeds :
         g2' = [class |-> "lib", args |-> a, self |-> LibMemObject(a, entropy)]
    /\ UNCHANGED <<g1, out1, out2, randomVars, memVars, pinVars, scoreVars, dashVars>>

SeededCall1 ==
    /\ g1.class = "lib" /\ Len(out1) < MaxCalls
    /\ LET r == LibMemGenerate(g1.self)
       IN  /\ out1' = Append(out1, r.result.value)
           /\ g1' = [g1 EXCEPT !.self.rng = r.rng]
    /\ UNCHANGED <<g2, out2, randomVars, memVars, pinVars, scoreVars, dashVars>>

SeededCall2 ==
    /\ g2.class = "lib" /\ Len(out2) < MaxCalls
    /\ LET r == LibMemGenerate(g2.self)
       IN  /\ out2' = Append(out2, r.result.value)
           /\ g2' = [g2 EXCEPT !.self.rng = r.rng]
    /\ UNCHANGED <<g1, out1, randomVars, memVars, pinVars, scoreVars, dashVars>>

InitSeed == RandomIdle /\ MemIdle /\ PinIdle /\ SeedIdle /\ ScoreIdle /\ DashIdle
NextSeed == SeededConstruct1 \/ SeededConstruct2 \/ SeededCall1 \/ SeededCall2
SpecSeed == InitSeed /\ [][NextSeed]_vars

\* both objects were constructed from the same configuration and the same given seed
SameSeededConfig ==
    /\ g1.class = "lib" /\ g2.class = "lib"
    /\ g1.args = g2.args /\ g1.args.rng_seed # NoSeed

\* C8 as claimed: with a seed given, any two generate() calls made with the same
\* configuration and seed return the same string, be they calls on two objects or
\* successive calls on one.
C8_Claimed ==
    SameSeededConfig =>
        \A x, y \in Range(out1) \cup Range(out2) : x = y

\* C8 as amended: with a seed given, the i-th generate() call on one object returns
\* what the i-th call on any other object constructed with the same configuration
\* and seed returns (successive calls on one object may differ).
C8_SameSequence ==
    SameSeededConfig =>
        \A i \in 1..Min(Len(out1), Len(out2)) : out1[i] = out2[i]

C8_Witness ==
    /\ SameSeededConfig
    /\ Len(out1) = 2 /\ Len(out2) = 2
    /\ out1[1] # out1[2] /\ out2[2] = out1[2]

(***************************************************************************)
(* compute_strength                                                        *)
(***************************************************************************)
MaxPwLen == 22      \* strings scored: up to MaxPwLen characters

\* str.isupper, str.islower, str.isdigit, str.isalnum of one (ASCII) character
isupper(c) == c \in Range(ascii_uppercase)
islower(c) == c \in Range(ascii_lowercase)
isdigit(c) == c \in Range(digits)
isalnum(c) == isupper(c) \/ islower(c) \/ isdigit(c)

\* mutant of round: halves are rounded up
round_HalfUp(halves) == (halves + 1) \div 2
\* round(x) of x = halves/2: to the nearest integer, a half to the even one
round(halves) ==
    LET q == halves \div 2
    IN  IF halves % 2 = 0 THEN q ELSE IF q % 2 = 0 THEN q ELSE q + 1

\* dash: compute_strength(pw); the three summands are held in halves, which is exact:
\* min(length - 4, 16) / 16 * 40 is a multiple of 2.5
compute_strength(s) ==
    IF Len(s) = 0 THEN [score |-> 0, label |-> "Weak"]
    ELSE
    LET length == Len(s)
        has_upper == \E i \in 1..length : isupper(s[i])
        has_lower == \E i \in 1..length : islower(s[i])
        has_digit == \E i \in 1..length : isdigit(s[i])
        has_symbol == \E i \in 1..length : ~isalnum(s[i])
        length_score2 == IF length > 4 THEN 5 * Min(length - 4, 16) ELSE 0
        classes == Cardinality({k \in 1..4 : <<has_upper, has_lower, has_digit, has_symbol>>[k]})
        diversity_score2 == 20 * classes
        bonus2 == IF has_digit /\ has_symbol THEN 40
                  ELSE IF has_digit \/ has_symbol THEN 20 ELSE 0
        score == Min(100, round(length_score2 + diversity_score2 + bonus2))
        label == IF score < 40 THEN "Weak"
                 ELSE IF score < 60 THEN "Medium"
                 ELSE IF score < 80 THEN "Strong"
                 ELSE "Very Strong"
    IN  [score |-> score, label |-> label]

\* the strings scored: some characters of chosen classes, the last one repeated up to
\* a length, and the strings the specification names
ClassSample == <<"T", "r", "4", "&">>
Padded(classes, n) ==
    LET head == SelectSeq(ClassSample, LAMBDA c : c \in classes)
    IN  [i \in 1..n |-> IF i <= Len(head) THEN head[i] ELSE head[Len(head)]]
aaaa == <<"a","a","a","a">>
Tr0ub4dor3 == <<"T","r","0","u","b","4","d","o","r","&","3">>
TestStrings ==
    {Padded(cs, n) : cs \in (SUBSET Range(ClassSample)) \ {{}}, n \in 4..MaxPwLen}
    \cup {<<>>, aaaa, Tr0ub4dor3, <<" ">>, <<"Z">>, <<"z", "9">>}

ScoreCall ==
    /\ strength = NoResult
    /\ strength' = [kind |-> "ok", value |-> compute_strength(pw)]
    /\ UNCHANGED <<pw, randomVars, memVars, pinVars, seedVars, dashVars>>

InitScore ==
    /\ pw \in TestStrings /\ strength = NoResult
    /\ RandomIdle /\ MemIdle /\ PinIdle /\ SeedIdle /\ DashIdle
NextScore == ScoreCall
SpecScore == InitScore /\ [][NextScore]_vars

Has(s, class) == Range(s) \cap class # {}
Letters == {"a","b","c","d","e","f","g","h","i","j","k","l","m",
            "n","o","p","q","r","s","t","u","v","w","x","y","z"}
Capitals == {"A","B","C","D","E","F","G","H","I","J","K","L","M",
             "N","O","P","Q","R","S","T","U","V","W","X","Y","Z"}
Numerals == {"0","1","2","3","4","5","6","7","8","9"}
HasSymbol(s) == Range(s) \ (Letters \cup Capitals \cup Numerals) # {}
\* twice lengthScore + diversityScore + bonus
Total2(s) ==
    (IF Len(s) <= 4 THEN 0 ELSE 5 * (IF Len(s) - 4 < 16 THEN Len(s) - 4 ELSE 16))
    + 20 * ( (IF Has(s, Capitals) THEN 1 ELSE 0) + (IF Has(s, Letters) THEN 1 ELSE 0)
           + (IF Has(s, Numerals) THEN 1 ELSE 0) + (IF HasSymbol(s) THEN 1 ELSE 0) )
    + (IF Has(s, Numerals) /\ HasSymbol(s) THEN 40
       ELSE IF Has(s, Numerals) \/ HasSymbol(s) THEN 20 ELSE 0)
\* n is x = halves/2 rounded: the nearest integer, the even one of the two nearest
Rounds(n, halves) ==
    \/ 2 * n = halves
    \/ (2 * n - halves \in {0 - 1, 1} /\ n % 2 = 0)
LabelOf(score) ==
    IF score < 40 THEN "Weak" ELSE IF score <= 59 THEN "Medium"
    ELSE IF score <= 79 THEN "Strong" ELSE "Very Strong"

\* C5: the score is round(lengthScore + diversityScore + bonus) within 0..100 (round
\* taking a half to the even integer, as Python does), the label follows the
\* thresholds 40, 60, 80; "" scores (0, Weak), "aaaa" is Weak, "Tr0ub4dor&3" is
\* Strong or Very Strong.
C5_Score ==
    strength.kind = "ok" =>
        LET r == strength.value
        IN  /\ r.score \in 0..100
            /\ pw # <<>> => Rounds(r.score, Total2(pw))
            /\ r.label = LabelOf(r.score)
            /\ pw = <<>> => (r.score = 0 /\ r.label = "Weak")
            /\ pw = aaaa => r.label = "Weak"
            /\ pw = Tr0ub4dor3 => r.label \in {"Strong", "Very Strong"}

C5_Witness ==
    /\ strength.kind = "ok" /\ pw = Tr0ub4dor3
    /\ strength.value = [score |-> 78, label |-> "Strong"]


(***************************************************************************)
(* The dashboard script.  Streamlit runs the whole script once for the     *)
(* page load and once for every widget the user changes or presses; a      *)
(* widget that a run does not render is back at its default the next time  *)
(* it is rendered, so the settings are those of the type shown.            *)
(***************************************************************************)
MaxHistory == 4     \* passwords generated in one session

\* st.session_state.password = None; a str is a sequence of characters
NonePassword == <<None>>

Options == {"Random Password", "Memorable Password", "Pin Code"}

\* dash: the widget defaults of the three types
DefaultSettings(option) ==
    IF option = "Random Password"
    THEN [length |-> 12, include_uppercase |-> TRUE, include_lowercase |-> TRUE,
          include_numbers |-> TRUE, include_symbols |-> FALSE, exclude_similar |-> FALSE,
          no_repeated_characters |-> FALSE]
    ELSE IF option = "Memorable Password"
    THEN [no_of_words |-> 4, separator |-> <<"-">>, capitalization |-> TRUE, suffix_length |-> 0]
    ELSE [length |-> 20]

\* the settings the user chooses among
SettingsOf(option) ==
    IF option = "Random Password"
    THEN {DefaultSettings(option),
          [DefaultSettings(option) EXCEPT !.no_repeated_characters = TRUE],
          [DefaultSettings(option) EXCEPT !.include_uppercase = FALSE, !.include_lowercase = FALSE,
                                          !.no_repeated_characters = TRUE],
          [DefaultSettings(option) EXCEPT !.include_uppercase = FALSE, !.include_lowercase = FALSE,
                                          !.include_numbers = FALSE]}
    ELSE IF option = "Memorable Password"
    THEN {DefaultSettings(option),
          [no_of_words |-> 2, separator |-> <<>>, capitalization |-> FALSE, suffix_length |-> 1]}
    ELSE {DefaultSettings(option), [length |-> 2]}

\* the values the random source returns to one generate() call of the dashboard
DashTapes == {[a |-> 0, b |-> 0, seq |-> <<>>], [a |-> 1, b |-> 1, seq |-> <<>>]}

\* dash: load_words(), the vocabulary of the word corpus
word_list == <<apple, banana, kiwi, cherry, fig, elephant, Apple>>

\* dash: the generator the selection logic stores in st.session_state.generator
BuildGenerator(w) ==
    IF w.option = "Random Password"
    THEN IF ~(w.settings.include_uppercase \/ w.settings.include_lowercase
              \/ w.settings.include_numbers \/ w.settings.include_symbols)
         THEN NoObject
         ELSE DashRandomObject(w.settings)
    ELSE IF w.option = "Memorable Password"
    THEN DashMemObject([no_of_words |-> w.settings.no_of_words, separator |-> w.settings.separator,
                        capitalization |-> w.settings.capitalization, vocabulary |-> word_list,
                        suffix_length |-> w.settings.suffix_length])
    ELSE [class |-> "dash", length |-> w.settings.length]

\* dash: st.session_state.generator.generate(), by the class of the generator
\* (which is the one of the type shown); every failure is a ValueError
DashGenerate(option, generator, t) ==
    LET r == IF option = "Random Password" THEN DashRandomGenerate(generator, t)
             ELSE IF option = "Memorable Password" THEN DashMemGenerate(generator, t)
             ELSE Returned(PinCandidate(generator.length, t))
    IN  IF r.kind = "ok" THEN Returned(r.value) ELSE Raised("ValueError")

\* mutant of HistoryAppend: the history is replaced by the new password
HistoryReplace(history, new_pw) == <<new_pw>>
\* dash: st.session_state.password_history.append(new_pw)
HistoryAppend(history, new_pw) == Append(history, new_pw)

NoRun == [button |-> "none", init |-> "none"]

\* dash: the password type is compared with the last one and the generator of the
\* type shown is stored
AfterSelection(s, w) ==
    [(IF s.last_option # w.option
      THEN [s EXCEPT !.password = NonePassword, !.last_option = w.option]
      ELSE s) EXCEPT !.generator = BuildGenerator(w)]

\* dash: the new password becomes the current one and is appended to the history
Stored(s, new_pw) ==
    [s EXCEPT !.password = new_pw, !.password_history = HistoryAppend(@, new_pw)]

\* dash: the initial generation, r2 being what generate() did
InitResult(s, button_did, r2) ==
    IF r2.kind = "ok"
    THEN [session |-> Stored(s, r2.value), rerun |-> FALSE,
          did |-> [button |-> button_did, init |-> "ok"]]
    ELSE [session |-> s, rerun |-> FALSE, did |-> [button |-> button_did, init |-> "error"]]

\* dash: "if st.session_state.password is None and st.session_state.generator"
InitOutcome(s, w, button_did, t2) ==
    IF s.password = NonePassword /\ s.generator # NoObject
    THEN InitResult(s, button_did, DashGenerate(w.option, s.generator, t2))
    ELSE [session |-> s, rerun |-> FALSE, did |-> [button |-> button_did, init |-> "none"]]

\* dash: the button was pressed, r1 being what generate() did; st.rerun() ends the pass
ButtonOutcome(s, w, r1, t2) ==
    IF r1.kind = "ok"
    THEN [session |-> Stored(s, r1.value), rerun |-> TRUE,
          did |-> [button |-> "ok", init |-> "none"]]
    ELSE InitOutcome(s, w, "error", t2)

\* dash: "if st.button(...)" and what follows it
ButtonAndInit(s, w, button, t1, t2) ==
    IF button /\ s.generator # NoObject
    THEN ButtonOutcome(s, w, DashGenerate(w.option, s.generator, t1), t2)
    ELSE InitOutcome(s, w, "none", t2)

\* dash: one pass of the script over session state s with widgets w; t1 and t2 are
\* the tapes of the button's and of the initial generate() call.  Gives the session
\* state left, what each generate() call did and whether st.rerun() ended the pass.
ScriptPass(s, w, button, t1, t2) == ButtonAndInit(AfterSelection(s, w), w, button, t1, t2)

\* dash: a run of the script; after st.rerun() the script runs again from the top,
\* the button not pressed
RunScript(s, w, button, t1, t2) ==
    LET pass == ScriptPass(s, w, button, t1, t2)
        again == ScriptPass(pass.session, w, FALSE, t1, t2)
    IN  IF pass.rerun
        THEN [session |-> again.session,
              did |-> [button |-> pass.did.button, init |-> again.did.init]]
        ELSE [session |-> pass.session, did |-> pass.did]

Run(w, button) ==
    /\ Len(session.password_history) < MaxHistory
    /\ \E t1, t2 \in DashTapes :
         LET r == RunScript(session, w, button, t1, t2)
         IN  session' = r.session /\ lastrun' = r.did
    /\ widgets' = w
    /\ UNCHANGED <<randomVars, memVars, pinVars, seedVars, scoreVars>>

\* the page is loaded
FirstRun ==
    /\ session.last_option = None
    /\ Run(widgets, FALSE)

\* the user picks another password type
ChangeOption ==
    /\ session.last_option # None
    /\ \E o \in Options \ {widgets.option} :
         Run([option |-> o, settings |-> DefaultSettings(o)], FALSE)

\* the user changes a setting of the type shown
ChangeSettings ==
    /\ session.last_option # None
    /\ \E st \in SettingsOf(widgets.option) \ {widgets.settings} :
         Run([widgets EXCEPT !.settings = st], FALSE)

\* the user presses "Generate New Password"
PressGenerate ==
    /\ session.last_option # None
    /\ Run(widgets, TRUE)

InitDash ==
    /\ widgets = [option |-> "Random Password", settings |-> DefaultSettings("Random Password")]
    /\ session = [generator |-> NoObject, password |-> NonePassword,
                  password_history |-> <<>>, last_option |-> None]
    /\ lastrun = NoRun
    /\ RandomIdle /\ MemIdle /\ PinIdle /\ SeedIdle /\ ScoreIdle
NextDash == FirstRun \/ ChangeOption \/ ChangeSettings \/ PressGenerate
SpecDash == InitDash /\ [][NextDash]_vars

\* C10: over any sequence of session events the history is append-only: a successful
\* generation appends exactly the new password at the end and makes it the current
\* one, no event removes, reorders or rewrites an entry, and a generation that fails
\* leaves the history and the current password as they were.
C10_AppendOnly ==
    [][ /\ Len(session'.password_history) >= Len(session.password_history)
        /\ SubSeq(session'.password_history, 1, Len(session.password_history))
             = session.password_history
        /\ (lastrun'.button = "ok" \/ lastrun'.init = "ok")
             => /\ session'.password_history = session.password_history \o <<session'.password>>
                /\ session'.password # NonePassword
        /\ ~(lastrun'.button = "ok" \/ lastrun'.init = "ok")
             => /\ session'.password_history = session.password_history
                /\ (lastrun'.button = "error" \/ lastrun'.init = "error")
                     => session'.password = session.password
      ]_<<session, lastrun>>

C10_Witness ==
    /\ lastrun.button = "error"
    /\ Len(session.password_history) = 2
    /\ session.password = session.password_history[2]
    /\ session.password_history[1] # session.password_history[2]

====
